---- MODULE Spec2Model ----
(***************************************************************************)
(* W.I.L.L: the notification scheduler (will/userspace/notifications.py)   *)
(* and the HTTP API (API.py).                                              *)
(*                                                                         *)
(* Spec          the scheduler of one process: the Notification value      *)
(*               object, the NotificationHandler registry (_notifications),*)
(*               the durable NotificationStore rows, the caller threads    *)
(*               running notify and the thread running _wait_notifications.*)
(* SpecSummary   the summary property of one Notification.                 *)
(* SpecHandlers  several NotificationHandler instances in one process.     *)
(* SpecUsers     the new_user route on the users table.                    *)
(* SpecSettings  the settings route on the users table.                    *)
(* SpecSessions  the session routes on core.sessions.                      *)
(* SpecRegistry  start_session, end_session and check_session on a         *)
(*               registry that already holds sessions.                     *)
(*                                                                         *)
(* Python values of the scheduler are tagged records                       *)
(* [t |-> type, v |-> payload]; a string is the sequence of its            *)
(* characters, where a run of characters that no operation here splits is  *)
(* written as one element.                                                 *)
(***************************************************************************)
EXTENDS Integers, Sequences, FiniteSets, TLC

\* ------------------------------------------------------------- bounds
MaxNotifs == 2
NumCallers == 2
MaxRestarts == 1
MaxTicks == 1
MaxLen == 9
MaxReads == 2
NumClients == 2
MaxUsers == 2
MaxSessions == 1
MaxCommands == 1
NumHandlers == 2

\* ------------------------------------------------- program constants
PersistLead == 300

Callers == 1..NumCallers
Keys == 1..MaxNotifs

\* ------------------------------------------------------ Python values
None == [t |-> "none", v |-> <<>>]
Str(s) == [t |-> "str", v |-> s]
List(l) == [t |-> "list", v |-> l]
Uuid(k) == [t |-> "uuid", v |-> <<k>>]
DateTime(c) == [t |-> "datetime", v |-> <<c>>]
User(name) == [t |-> "user", v |-> <<name>>]
Db == [t |-> "db", v |-> <<>>]

SameVal(a, b) == a.t = b.t /\ a.v = b.v

\* Python truth value of an object: None, "" and [] are false.
Truthy(x) ==
    IF x.t = "none" THEN FALSE
    ELSE IF x.t \in {"str", "list"} THEN x.v # <<>>
    ELSE TRUE

\* user_data["username"]: the user record supports it, a str, a list, a
\* uuid or None raises TypeError.
Subscriptable(x) == x.t = "user"

NonAscii == {"U+00E9"}
IsAscii(c) == c \notin NonAscii

\* tools.ascii_encode: text normalised to ASCII, the characters outside it
\* dropped.
AsciiEncode(x) ==
    IF x.t = "str" THEN Str(SelectSeq(x.v, IsAscii))
    ELSE IF x.t = "list"
         THEN List([i \in DOMAIN x.v |-> SelectSeq(x.v[i], IsAscii)])
         ELSE x

TitlePrefix == <<"W.I.L.L - ">>

\* str.split(" "): one word per separator, empty words kept.
RECURSIVE SplitFrom(_, _, _)
SplitFrom(s, i, word) ==
    IF i > Len(s) THEN <<word>>
    ELSE IF s[i] = " " THEN <<word>> \o SplitFrom(s, i + 1, <<>>)
         ELSE SplitFrom(s, i + 1, Append(word, s[i]))

Split(s) == SplitFrom(s, 1, <<>>)

HasSpace(s) == \E i \in DOMAIN s : s[i] = " "

\* ------------------------------------------------------- Notification
\* Notification.__init__(message, title, trigger_time, scope, db,
\* user_data, summary, uid, created); clock is time at construction and
\* fresh the value uuid.uuid1() would return.
Notification(message, title, trigger_time, scope, db, user_data, summary, uid, created, clock, fresh) ==
    [ title        |-> AsciiEncode(Str(TitlePrefix \o title.v)),
      message      |-> AsciiEncode(message),
      scope        |-> scope,
      db           |-> db,
      summary      |-> summary,
      created      |-> IF Truthy(created) THEN created ELSE DateTime(clock),
      uid          |-> IF Truthy(uid) THEN uid ELSE Uuid(fresh),
      trigger_time |-> trigger_time,
      user_data    |-> user_data ]

\* Notification.time_reached
TimeReached(n, clock) == clock >= n.trigger_time

\* Notification.summary: the value the property returns, which it also
\* stores in _summary.
Summary(n) ==
    IF Truthy(n.summary) THEN n.summary
    ELSE LET words == Split(n.message.v)
             s == IF HasSpace(n.message.v)
                  THEN IF Len(words) >= 5
                       THEN List(SubSeq(words, 1, 4))
                       ELSE n.message
                  ELSE n.message
         IN  AsciiEncode(s)

\* The scope-to-channel mapping of Notification.send.
Mappings == {"email"}

\* ------------------------------------------------------------- a dict
\* A dict is the sequence of its entries in insertion order.
DictKeys(d) == {d[i].key : i \in DOMAIN d}

DictGet(d, k) == d[CHOOSE i \in DOMAIN d : d[i].key = k].value

\* A registry rebound to a new dict holding only the new entry.
DictRebind(d, k, x) == <<[key |-> k, value |-> x]>>

\* dict.update({k: x}): an existing key keeps its place.
DictUpdate(d, k, x) ==
    IF k \in DictKeys(d)
    THEN [i \in DOMAIN d |-> IF d[i].key = k THEN [key |-> k, value |-> x] ELSE d[i]]
    ELSE Append(d, [key |-> k, value |-> x])

\* del d[k]
DictDel(d, k) == SelectSeq(d, LAMBDA e : e.key # k)

\* ------------------------------------------------------------- state
VARIABLES
    now,            \* time.time()
    notifications,  \* NotificationHandler._notifications of the running process
    rows,           \* the NotificationStore table, in insertion order
    handler,        \* "up": __init__ returned; "failed": __init__ raised
    openSessions,   \* database sessions of the running process opened and not closed
    loop,           \* the thread running _wait_notifications
    caller,         \* the threads calling notify
    nextUid,        \* the next value of uuid.uuid1()
    restarts,       \* process restarts so far
    sendCount,      \* per uid, the send() calls made on it
    channelCalls,   \* per uid, the delivery channel calls made for it
    observed,       \* uids the loop of the running process has seen with time_reached true
    registered,     \* uids passed to notify in the running process
    removed,        \* uids the loop has deleted from the live set in the running process
    reloaded,       \* uids loaded from the table when the running process started
    unpersisted,    \* uids whose row notify failed to add or commit in the running process
    note,           \* a Notification whose summary property is read
    supplied,       \* the summary argument it was constructed with
    reads,          \* the values its summary property has returned, in order
    computes,       \* how often the property has run its computing branch
    users,          \* the rows of db["users"], in insertion order
    uniqueIndex,    \* whether the users table has a unique index on username
    sessions,       \* core.sessions
    req,            \* the threads serving API requests
    last,           \* the request answered last: its route, form and response
    nextSession,    \* the next session id tools.gen_session makes
    nextCommand,    \* the next command id tools.get_command_id makes
    coreCalls,      \* per command id, the calls of core.sessions_monitor.command
    queuePuts,      \* per command id, the puts on a session's command queue
    issued,         \* session ids that start_session has returned with success
    ended,          \* session ids that end_session has removed with success
    loops,          \* per NotificationHandler instance, its _wait_notifications thread
    via,            \* per uid, the instance whose notify registered it (0: none)
    sentBy          \* per uid, the instance whose thread called send() on it (0: none)

\* The scheduler's state, and the state of a lone Notification.
notifVars == <<now, notifications, rows, handler, openSessions, loop, caller, nextUid,
               restarts, sendCount, channelCalls, observed, registered, removed,
               reloaded, unpersisted>>
summaryVars == <<note, supplied, reads, computes>>
apiVars == <<users, uniqueIndex, sessions, req, last, nextSession, nextCommand,
             coreCalls, queuePuts, issued, ended>>

handlersVars == <<loops, via, sentBy>>

vars == <<notifVars, summaryVars, apiVars, handlersVars>>

\* What an action of the scheduler leaves alone.
besideNotif == <<summaryVars, apiVars, handlersVars>>

\* ------------------------------------------------------------ inputs
\* The clock is read every TimeStep seconds.
TimeStep == PersistLead + 1

\* What callers schedule: an overdue reminder, one due in exactly 300 s on
\* a scope with no channel, one due in 301 s.
ShortMessage == <<"caf", "U+00E9", " ", "now">>
LongMessage == <<"a", " ", "b", " ", "c", " ", "d", " ", "e">>
Inputs ==
    { [message |-> ShortMessage, title |-> <<"Reminder">>, lead |-> -10,
       scope |-> "email", username |-> "holden"],
      [message |-> ShortMessage, title |-> <<"Reminder">>, lead |-> PersistLead,
       scope |-> "sms", username |-> "holden"],
      [message |-> LongMessage, title |-> <<"Reminder">>, lead |-> PersistLead + 1,
       scope |-> "email", username |-> "holden"] }

\* The attributes a NotificationHandler instance has: the class attributes
\* and what __init__ sets.
HandlerAttrs == {"running", "_notifications", "db"}

\* --------------------------------------------------- NotificationStore
\* The row notify builds from a notification whose summary property
\* returned s.
NotificationStore(n, s) ==
    [ uid          |-> n.uid,
      message      |-> n.message,
      title        |-> n.title,
      trigger_time |-> n.trigger_time,
      scope        |-> n.scope,
      created      |-> n.created,
      summary      |-> s,
      user_id      |-> Str(n.user_data.v) ]

\* The test with the boundary on the wrong side.
ShouldPersistFrom300(n, clock) == n.trigger_time - clock >= PersistLead

\* notify's test for persisting.
ShouldPersist(n, clock) == n.trigger_time - clock > PersistLead

\* _pull_notificatons: the live set after loading the rows r[i..] into d.
RECURSIVE PullInto(_, _, _, _)
PullInto(d, r, i, clock) ==
    IF i > Len(r) THEN d
    ELSE LET notification == r[i]
             user_set == notification.user_id
             datetime_instance == notification.created
             not_class == Notification(
                             notification.message,
                             notification.title,
                             notification.trigger_time,
                             notification.scope,
                             user_set,
                             notification.summary,
                             notification.uid,
                             datetime_instance,
                             None, clock, 0)
         IN  PullInto(DictUpdate(d, notification.uid.v[1], not_class), r, i + 1, clock)

\* The object stored under key k gets its _summary set, if it is still there.
Memoize(d, k, s) ==
    [i \in DOMAIN d |->
        IF d[i].key = k
        THEN [key |-> k, value |-> [d[i].value EXCEPT !.summary = s]]
        ELSE d[i]]

\* A caller thread: where it is in notify ("idle" before a call and after
\* one that returned, "inserted" between lines 127 and 129, "raised" after
\* a call that raised) and the object it passed, while the call runs.
CallerAt(pc, n) == [pc |-> pc, n |-> n]
IdleCaller == CallerAt("idle", None)

\* The loop thread: where it is, the dict iterator (the size it remembers
\* and its position), the entry at hand, what send() did on it and the
\* exception that ended the thread.
LoopAt(pc, di_used, di_pos, n, key, out, error) ==
    [pc |-> pc, di_used |-> di_used, di_pos |-> di_pos, n |-> n, key |-> key,
     out |-> out, error |-> error]
FreshLoop == LoopAt("top", 0, 0, None, 0, "none", "none")

\* -------------------------------------------------------------- Init
\* A first start on an empty table: __init__ has pulled nothing and has
\* started the thread.
NotifStart ==
    /\ now = 0
    /\ notifications = <<>>
    /\ rows = <<>>
    /\ handler = "up"
    /\ openSessions = 0
    /\ loop = FreshLoop
    /\ caller = [c \in Callers |-> IdleCaller]
    /\ nextUid = 1
    /\ restarts = 0
    /\ sendCount = [k \in Keys |-> 0]
    /\ channelCalls = [k \in Keys |-> 0]
    /\ observed = {}
    /\ registered = {}
    /\ removed = {}
    /\ reloaded = {}
    /\ unpersisted = {}

\* --------------------------------------------------- the API's values
Clients == 1..NumClients
CommandIds == 1..MaxCommands

\* request.form (request.args for a GET): complete is false when a field
\* the route reads is not in it.
Form(complete, username, password, session_id, command, method) ==
    [complete |-> complete, username |-> username, password |-> password,
     session_id |-> session_id, command |-> command, method |-> method]
NoForm == Form(FALSE, "", "", "", "", "")

\* A response: its type and text ("None" and "" for None), what its data
\* holds (session_id, valid, sessions), and the exception that left the
\* route uncaught, if one did.
Resp(type, text, session_id, valid, listed, raised) ==
    [type |-> type, text |-> text, session_id |-> session_id, valid |-> valid,
     listed |-> listed, raised |-> raised]

\* response = {"type": None, "data": {}, "text": None}
NewResponse == Resp("None", "", "", "unset", <<>>, "none")

Error(text) == [NewResponse EXCEPT !.type = "error", !.text = text]
Raised(exception) == [NewResponse EXCEPT !.raised = exception]

\* A request thread: where it is in a route, the form of its request and
\* the locals command_id and command_response of process_command.
ReqAt(pc, form, command_id, command_response) ==
    [pc |-> pc, form |-> form, command_id |-> command_id,
     command_response |-> command_response]
IdleReq == ReqAt("idle", NoForm, 0, "None")

Answered(route, form, resp) == [route |-> route, form |-> form, resp |-> resp]
NoRequest == Answered("none", NoForm, NewResponse)

\* The API after start-up: db = the database with an empty users table,
\* core.sessions = {}, no request in progress.
ApiStart ==
    /\ users = <<>>
    /\ sessions = <<>>
    /\ req = [c \in Clients |-> IdleReq]
    /\ last = NoRequest
    /\ nextSession = 1
    /\ nextCommand = 1
    /\ coreCalls = [k \in CommandIds |-> 0]
    /\ queuePuts = [k \in CommandIds |-> 0]
    /\ issued = {}
    /\ ended = {}

\* No request reaches the API.
ApiIdle == ApiStart /\ uniqueIndex = FALSE

\* ------------------------------------------- several handler instances
Handlers == 1..NumHandlers

\* The thread an instance starts: "unborn" before __init__, "failed" when
\* __init__ raised, "running", "dead" after an uncaught exception.
ThreadAt(pc, error) == [pc |-> pc, error |-> error]

\* No further NotificationHandler is constructed.
HandlersIdle ==
    /\ loops = [h \in Handlers |-> ThreadAt("unborn", "none")]
    /\ via = [k \in Keys |-> 0]
    /\ sentBy = [k \in Keys |-> 0]

\* No lone Notification is under study.
SummaryIdle ==
    /\ note = None
    /\ supplied = None
    /\ reads = <<>>
    /\ computes = 0

Init == NotifStart /\ SummaryIdle /\ ApiIdle /\ HandlersIdle

\* ------------------------------------------------------------ notify
\* A caller builds a Notification (the default uid) and notify puts it in
\* the live set: lines 126-127. The caller threads are interchangeable:
\* the call is made by the free one with the lowest number.
NotifyInsert(c) ==
    /\ UNCHANGED besideNotif
    /\ handler = "up"
    /\ caller[c].pc # "inserted"
    /\ \A b \in Callers : b < c => caller[b].pc = "inserted"
    /\ nextUid <= MaxNotifs
    /\ \E in \in Inputs :
        LET not_object == Notification(Str(in.message), Str(in.title), now + in.lead,
                                       in.scope, Db, User(in.username), None, None,
                                       None, now, nextUid)
            not_uid == not_object.uid.v[1]
        IN  /\ notifications' = DictUpdate(notifications, not_uid, not_object)
            /\ caller' = [caller EXCEPT ![c] = CallerAt("inserted", not_object)]
            /\ registered' = registered \cup {not_uid}
    /\ nextUid' = nextUid + 1
    /\ UNCHANGED <<now, rows, handler, openSessions, loop, restarts, sendCount,
                   channelCalls, observed, removed, reloaded,
                   unpersisted>>

\* The rest of notify, lines 129-139, for the object the caller holds. The
\* session is opened, the row built (which reads the summary property),
\* added and committed, and the session closed; add or commit may raise,
\* and then nothing is written and close is not reached.
NotifyPersist(c) ==
    /\ UNCHANGED besideNotif
    /\ caller[c].pc = "inserted"
    /\ LET not_object == caller[c].n
           not_uid == not_object.uid.v[1]
       IN  IF ShouldPersist(not_object, now)
           THEN /\ notifications' = Memoize(notifications, not_uid, Summary(not_object))
                /\ \/ /\ rows' = Append(rows, NotificationStore(not_object, Summary(not_object)))
                      /\ openSessions' = openSessions
                      /\ caller' = [caller EXCEPT ![c] = CallerAt("idle", None)]
                      /\ unpersisted' = unpersisted
                   \/ /\ rows' = rows
                      /\ openSessions' = openSessions + 1
                      /\ caller' = [caller EXCEPT ![c] = CallerAt("raised", None)]
                      /\ unpersisted' = unpersisted \cup {not_uid}
           ELSE /\ caller' = [caller EXCEPT ![c] = CallerAt("idle", None)]
                /\ UNCHANGED <<notifications, rows, openSessions, unpersisted>>
    /\ UNCHANGED <<now, handler, loop, nextUid, restarts, sendCount, channelCalls,
                   observed, registered, removed, reloaded>>

\* ------------------------------------------------- _wait_notifications
\* The thread ends with an uncaught exception.
LoopDies(error) == [loop EXCEPT !.pc = "dead", !.error = error]

\* Line 172, the live set empty: sleep(1) and test again.
LoopSleep ==
    /\ handler = "up"
    /\ loop.pc = "top"
    /\ notifications = <<>>
    /\ UNCHANGED vars

\* Lines 172-173, the live set not empty: items() is iterated, the
\* iterator remembering the size of the dict.
LoopScan ==
    /\ UNCHANGED besideNotif
    /\ handler = "up"
    /\ loop.pc = "top"
    /\ notifications # <<>>
    /\ loop' = LoopAt("next", Len(notifications), 0, None, 0, "none", "none")
    /\ UNCHANGED <<now, notifications, rows, handler, openSessions, caller, nextUid,
                   restarts, sendCount, channelCalls, observed, registered, removed,
                   reloaded,
                   unpersisted>>

\* Lines 173-175. The iterator's next raises RuntimeError when the dict's
\* size is no longer the one remembered; else it gives the next entry,
\* whose time_reached is read, or the scan ends and the thread sleeps 0.2 s.
LoopNext ==
    /\ UNCHANGED besideNotif
    /\ loop.pc = "next"
    /\ IF loop.di_used # Len(notifications)
       THEN /\ loop' = LoopDies("RuntimeError")
            /\ observed' = observed
       ELSE IF loop.di_pos < Len(notifications)
            THEN LET not_uid == notifications[loop.di_pos + 1].key
                     notification == notifications[loop.di_pos + 1].value
                 IN  /\ loop' = LoopAt(IF TimeReached(notification, now)
                                       THEN "send" ELSE "next",
                                       loop.di_used, loop.di_pos + 1, notification,
                                       not_uid, "none", "none")
                     /\ observed' = IF TimeReached(notification, now)
                                    THEN observed \cup {not_uid} ELSE observed
            ELSE /\ loop' = FreshLoop
                 /\ observed' = observed
    /\ UNCHANGED <<now, notifications, rows, handler, openSessions, caller, nextUid,
                   restarts, sendCount, channelCalls, registered, removed, reloaded,
                   unpersisted>>

\* A send that falls back to the email channel for any scope.
SendDefaultEmail(n) ==
    IF ~Subscriptable(n.user_data) THEN {"TypeError"} ELSE {"sent", "raised"}

\* Notification.send, lines 53-67: the outcomes of one call. Line 57 reads
\* user_data["username"]; the email channel posts to the relay, which may
\* raise; a scope with no channel is logged.
Send(n) ==
    IF ~Subscriptable(n.user_data) THEN {"TypeError"}
    ELSE IF n.scope \in Mappings THEN {"sent", "raised"}
         ELSE {"nochannel"}

\* Lines 177-184: the log line, which reads
\* notification.user_data["username"] outside the try, then send() inside
\* it. The except clause reads user_data["username"] again.
LoopSend ==
    /\ UNCHANGED besideNotif
    /\ loop.pc = "send"
    /\ IF ~Subscriptable(loop.n.user_data)
       THEN /\ loop' = LoopDies("TypeError")
            /\ UNCHANGED <<notifications, sendCount, channelCalls>>
       ELSE \E out \in Send(loop.n) :
            /\ sendCount' = [sendCount EXCEPT ![loop.key] = @ + 1]
            /\ loop' = [loop EXCEPT !.pc = "remove", !.out = out]
            /\ IF out \in {"sent", "raised"}
               THEN /\ notifications' = Memoize(notifications, loop.key, Summary(loop.n))
                    /\ channelCalls' = [channelCalls EXCEPT ![loop.key] = @ + 1]
               ELSE /\ notifications' = notifications
                    /\ channelCalls' = channelCalls
    /\ UNCHANGED <<now, rows, handler, openSessions, caller, nextUid, restarts,
                   observed, registered, removed, reloaded,
                   unpersisted>>

\* delete_notification: the row of a uid leaves the table.
DeleteRow(r, uid) == SelectSeq(r, LAMBDA x : ~SameVal(x.uid, uid))

\* Lines 185-188: del self._notifications[not_uid], then
\* self.graph.session() and the delete transaction. The handler has no
\* attribute graph.
LoopRemove ==
    /\ UNCHANGED besideNotif
    /\ loop.pc = "remove"
    /\ IF loop.key \notin DictKeys(notifications)
       THEN /\ loop' = LoopDies("KeyError")
            /\ UNCHANGED <<notifications, removed, rows>>
       ELSE /\ notifications' = DictDel(notifications, loop.key)
            /\ removed' = removed \cup {loop.key}
            /\ IF "graph" \in HandlerAttrs
               THEN /\ rows' = DeleteRow(rows, loop.n.uid)
                    /\ loop' = [loop EXCEPT !.pc = "next"]
               ELSE /\ rows' = rows
                    /\ loop' = LoopDies("AttributeError")
    /\ UNCHANGED <<now, handler, openSessions, caller, nextUid, restarts, sendCount,
                   channelCalls, observed, registered, reloaded,
                   unpersisted>>

\* ----------------------------------------------------- the environment
\* Time passes.
Advance ==
    /\ UNCHANGED besideNotif
    /\ now + TimeStep <= MaxTicks * TimeStep
    /\ now' = now + TimeStep
    /\ UNCHANGED <<notifications, rows, handler, openSessions, loop, caller, nextUid,
                   restarts, sendCount, channelCalls, observed, registered, removed,
                   reloaded,
                   unpersisted>>

\* The process ends and is started again: its memory is gone, and
\* __init__ (lines 109-118) pulls the table into the new live set and
\* starts the thread. The query may raise, and then __init__ raises with
\* the session still open and no thread started.
Restart ==
    /\ UNCHANGED besideNotif
    /\ restarts < MaxRestarts
    /\ restarts' = restarts + 1
    /\ caller' = [c \in Callers |-> IdleCaller]
    /\ loop' = FreshLoop
    /\ observed' = {}
    /\ registered' = {}
    /\ removed' = {}
    /\ unpersisted' = {}
    /\ \/ /\ notifications' = PullInto(<<>>, rows, 1, now)
          /\ reloaded' = DictKeys(notifications')
          /\ handler' = "up"
          /\ openSessions' = 0
       \/ /\ notifications' = <<>>
          /\ reloaded' = {}
          /\ handler' = "failed"
          /\ openSessions' = 1
    /\ UNCHANGED <<now, rows, nextUid, sendCount, channelCalls>>

Next ==
    \/ \E c \in Callers : NotifyInsert(c)
    \/ \E c \in Callers : NotifyPersist(c)
    \/ LoopSleep
    \/ LoopScan
    \/ LoopNext
    \/ LoopSend
    \/ LoopRemove
    \/ Advance
    \/ Restart

Spec == Init /\ [][Next]_vars

\* ------------------------------------------- a lone Notification's summary
\* The messages a Notification is constructed with: every text of at most
\* MaxLen characters over a letter, the space and a letter outside ASCII;
\* and the summary arguments: none, the empty string, a text.
Alphabet == {"a", " "} \cup NonAscii
Messages == UNION {[1..n -> Alphabet] : n \in 0..MaxLen}
SuppliedSummaries == {None, Str(<<>>), Str(<<"s", "U+00E9">>)}

\* Notification(message, "Reminder", 0, "email", db, user, summary).
SummaryInit ==
    /\ NotifStart
    /\ ApiIdle
    /\ HandlersIdle
    /\ \E m \in Messages, s \in SuppliedSummaries :
        /\ note = Notification(Str(m), Str(<<"Reminder">>), 0, "email", Db,
                               User("holden"), s, None, None, 0, 1)
        /\ supplied = s
    /\ reads = <<>>
    /\ computes = 0

\* One read of the summary property, lines 89-102: with _summary false the
\* branch of lines 92-101 runs and assigns it; _summary is returned.
ReadSummary ==
    /\ Len(reads) < MaxReads
    /\ reads' = Append(reads, Summary(note))
    /\ note' = [note EXCEPT !.summary = Summary(note)]
    /\ computes' = IF Truthy(note.summary) THEN computes ELSE computes + 1
    /\ UNCHANGED <<supplied, notifVars, apiVars, handlersVars>>

SummaryNext == ReadSummary

SpecSummary == SummaryInit /\ [][SummaryNext]_vars

\* ------------------------------------------------------------ the API
\* What requests carry.
Usernames == {"ann", "bob"}
Passwords == {"pw", "pw2"}
Commands == {"hi"}
BadString == "';--"

\* tools.check_string: whether a request string is safe to use.
CheckString(x) == x # BadString

\* bcrypt.hashpw(password, salt), and a check that accepts any password.
HashPw(password) == <<"bcrypt", password>>
CheckPwAny(password, hashed) == TRUE

\* bcrypt.checkpw(password, hashed)
CheckPw(password, hashed) == hashed = HashPw(password)

\* configuration_data["admins"]
Admins == {"ann"}

\* What a request field that is not a credential holds at registration,
\* what a settings request posts, and a column with no value.
OldValue == "old"
NewValue == "new"
Null == "NULL"

\* The row new_user inserts (lines 67-82) with the id the table gives it;
\* the table has no value in user_token for it.
NewUserRow(username, hashed, id) ==
    [ id            |-> ToString(id),
      username      |-> username,
      password      |-> hashed,
      admin         |-> IF username \in Admins THEN "true" ELSE "false",
      user_token    |-> Null,
      notifications |-> "[email]",
      email         |-> OldValue,
      city          |-> OldValue ]

\* table.find_one(username=...): the first row of that username, if any.
HasUser(table, username) == \E i \in DOMAIN table : table[i].username = username
FindOne(table, username) ==
    table[CHOOSE i \in DOMAIN table :
              /\ table[i].username = username
              /\ \A j \in 1..(i - 1) : table[j].username # username]

\* The forms with username and password, with session_id, and with
\* session_id and command. Session ids are the decimal strings "1", "2",
\* ...; "0" is an id never issued.
CredentialForms ==
    {Form(FALSE, "", "", "", "", "POST")}
        \cup {Form(TRUE, u, p, "", "", "POST") :
                 u \in Usernames \cup {BadString}, p \in Passwords}
\* start_session also takes a GET, with the fields in request.args.
StartSessionForms ==
    CredentialForms
        \cup {Form(FALSE, "", "", "", "", "GET"), Form(TRUE, "ann", "pw", "", "", "GET")}
SessionIdStrings == {ToString(k) : k \in 0..MaxSessions} \cup {BadString}
SessionForms ==
    {Form(FALSE, "", "", "", "", "POST")}
        \cup {Form(TRUE, "", "", sid, "", "POST") : sid \in SessionIdStrings}
CommandForms ==
    {Form(FALSE, "", "", "", "", "POST")}
        \cup {Form(TRUE, "", "", sid, cmd, "POST") :
                 sid \in SessionIdStrings, cmd \in Commands}

\* tools.gen_session(username, client, db): the session object, with a new
\* id; core.sessions.update(session_obj) files it under that id.
GenSession(username, client, fresh) ==
    [id |-> ToString(fresh), username |-> username, commands |-> <<>>]
SessionsUpdate(d, session_obj) == DictUpdate(d, session_obj.id, session_obj)

\* The request threads are interchangeable: a new request is served by
\* the idle one with the lowest number.
Free(c) ==
    /\ req[c].pc = "idle"
    /\ \A b \in Clients : b < c => req[b].pc # "idle"

\* The route returns resp: the thread is idle again.
Answer(c, route, form, resp) ==
    /\ req' = [req EXCEPT ![c] = IdleReq]
    /\ last' = Answered(route, form, resp)

\* start_session, lines 193-237: the branch a form takes.
StartSessionBranch(f) ==
    IF ~f.complete THEN "KeyError"
    ELSE IF ~(CheckString(f.username) /\ CheckString(f.password)) THEN "invalid"
    ELSE IF ~HasUser(users, f.username) THEN "nouser"
    ELSE IF ~CheckPw(f.password, FindOne(users, f.username).password) THEN "nopass"
    ELSE "auth"

\* start_session, lines 184-246.
StartSession(c) ==
    /\ Free(c)
    /\ \E f \in StartSessionForms :
        LET branch == StartSessionBranch(f)
            client == IF f.method = "POST" THEN "API-POST" ELSE "API-GET"
            session_obj == GenSession(f.username, client, nextSession)
            session_id == session_obj.id
        IN  IF branch = "auth"
            THEN /\ nextSession <= MaxSessions
                 /\ sessions' = SessionsUpdate(sessions, session_obj)
                 /\ nextSession' = nextSession + 1
                 /\ IF session_id # ""
                    THEN /\ issued' = issued \cup {session_id}
                         /\ Answer(c, "start_session", f,
                                   [NewResponse EXCEPT !.type = "success",
                                                       !.text = "Authentication successful",
                                                       !.session_id = session_id])
                    ELSE /\ issued' = issued
                         /\ Answer(c, "start_session", f, Error("Invalud username/password"))
            ELSE /\ UNCHANGED <<sessions, nextSession, issued>>
                 /\ Answer(c, "start_session", f,
                           IF branch = "KeyError"
                           THEN Error("Couldn't find username and password in request data")
                           ELSE IF branch = "invalid" THEN Error("Invalid input")
                           ELSE IF branch = "nouser"
                                THEN Error("Couldn't find user with username")
                                ELSE NewResponse)
    /\ UNCHANGED <<users, uniqueIndex, nextCommand, coreCalls, queuePuts, ended>>
    /\ UNCHANGED <<notifVars, summaryVars, handlersVars>>

\* check_session, lines 276-302.
CheckSession(c) ==
    /\ Free(c)
    /\ \E f \in SessionForms :
        LET session_id == f.session_id
            session_valid == session_id \in DictKeys(sessions)
        IN  Answer(c, "check_session", f,
                   IF ~f.complete
                   THEN [Error("Couldn't find session_id in request data")
                            EXCEPT !.valid = "false"]
                   ELSE IF CheckString(session_id)
                        THEN [NewResponse EXCEPT
                                 !.type = "success",
                                 !.valid = IF session_valid THEN "true" ELSE "false",
                                 !.text = IF session_valid THEN "Session id is valid"
                                          ELSE "Session id is invalid"]
                        ELSE [Error("Invalid input") EXCEPT
                                 !.valid = IF session_valid THEN "true" ELSE "false"])
    /\ UNCHANGED <<users, uniqueIndex, sessions, nextSession, nextCommand, coreCalls,
                   queuePuts, issued, ended>>
    /\ UNCHANGED <<notifVars, summaryVars, handlersVars>>

\* A filter that keeps every session.
OwnedByAnyone(session, username) == TRUE

\* get_sessions, line 171: sessions[session]["username"] == username
OwnedBy(session, username) == session.username = username

\* get_sessions, lines 169-172: the ids of username's sessions, in the
\* order of core.sessions.
SessionsOf(d, username) ==
    LET own == SelectSeq(d, LAMBDA e : OwnedBy(e.value, username))
    IN  [i \in DOMAIN own |-> own[i].key]

\* get_sessions, lines 152-181. find_one gives None for an unknown
\* username, and None["password"] raises TypeError.
GetSessions(c) ==
    /\ Free(c)
    /\ \E f \in CredentialForms :
        Answer(c, "get_sessions", f,
               IF ~f.complete
               THEN Error("Couldn't find username and password in request")
               ELSE IF ~HasUser(users, f.username) THEN Raised("TypeError")
               ELSE IF CheckPw(f.password, FindOne(users, f.username).password)
                    THEN [NewResponse EXCEPT !.type = "success",
                                             !.text = "Fetched active sessions",
                                             !.listed = SessionsOf(sessions, f.username)]
                    ELSE Error("Invalid username/password combination"))
    /\ UNCHANGED <<users, uniqueIndex, sessions, nextSession, nextCommand, coreCalls,
                   queuePuts, issued, ended>>
    /\ UNCHANGED <<notifVars, summaryVars, handlersVars>>

\* Threads at a given place of a route.
InFlight(pc) == Cardinality({b \in Clients : req[b].pc = pc})

\* new_user, lines 32-57 and 88-98: the form is read and checked and the
\* username looked up. The table takes at most MaxUsers rows.
NewUserCheck(c) ==
    /\ Free(c)
    /\ UNCHANGED users
    /\ \E f \in CredentialForms :
        IF ~f.complete
        THEN Answer(c, "new_user", f, Error("Couldn't find required data in request"))
        ELSE IF ~(CheckString(f.username) /\ CheckString(f.password))
             THEN Answer(c, "new_user", f, Error("Invalid input"))
             ELSE IF HasUser(users, f.username)
                  THEN Answer(c, "new_user", f, Error("Username is already taken"))
                  ELSE /\ Len(users) + InFlight("insert") < MaxUsers
                       /\ req' = [req EXCEPT ![c] = ReqAt("insert", f, 0, "None")]
                       /\ last' = last
    /\ UNCHANGED <<uniqueIndex, sessions, nextSession, nextCommand, coreCalls,
                   queuePuts, issued, ended>>
    /\ UNCHANGED <<notifVars, summaryVars, handlersVars>>

\* A rollback that keeps what the transaction has written.
RollbackKeep(committed, written) == written

\* db.rollback(): the table is what was committed before db.begin().
Rollback(committed, written) == committed

\* new_user, lines 60-87: begin, hash, insert and commit. The insert may
\* raise, as it does on a unique index for a username that has been taken
\* meanwhile, and so may the commit of the inserted row; the except clause
\* rolls back and sets no response.
NewUserInsert(c) ==
    /\ req[c].pc = "insert"
    /\ LET f == req[c].form
           hashed == HashPw(f.password)
           inserted == Append(users, NewUserRow(f.username, hashed, Len(users) + 1))
           refused == uniqueIndex /\ HasUser(users, f.username)
       IN  \/ /\ ~refused
              /\ users' = inserted
              /\ Answer(c, "new_user", f,
                        [NewResponse EXCEPT !.type = "success",
                                            !.text = "Thank you, you are now registered"])
           \/ /\ \E written \in (IF refused THEN {users} ELSE {users, inserted}) :
                     users' = Rollback(users, written)
              /\ Answer(c, "new_user", f, NewResponse)
    /\ UNCHANGED <<uniqueIndex, sessions, nextSession, nextCommand, coreCalls,
                   queuePuts, issued, ended>>
    /\ UNCHANGED <<notifVars, summaryVars, handlersVars>>

\* end_session, lines 257-262 and 267-272: the form is read and the id
\* looked up in core.sessions.
EndSessionCheck(c) ==
    /\ Free(c)
    /\ \E f \in SessionForms :
        IF ~f.complete
        THEN Answer(c, "end_session", f, Error("Couldn't find session id in request data"))
        ELSE IF f.session_id \in DictKeys(sessions)
             THEN /\ req' = [req EXCEPT ![c] = ReqAt("del", f, 0, "None")]
                  /\ last' = last
             ELSE Answer(c, "end_session", f,
                         Error("Session id wasn't found in core.sessions"))
    /\ UNCHANGED <<users, uniqueIndex, sessions, nextSession, nextCommand, coreCalls,
                   queuePuts, issued, ended>>
    /\ UNCHANGED <<notifVars, summaryVars, handlersVars>>

\* A removal that leaves the session in the registry, and one that empties
\* the registry.
SessionsKeep(d, session_id) == d
SessionsClear(d, session_id) == <<>>

\* del core.sessions[session_id]
SessionsDel(d, session_id) == DictDel(d, session_id)

\* end_session, lines 263-266: del core.sessions[session_id], which raises
\* KeyError when the id has left the registry meanwhile.
EndSessionDel(c) ==
    /\ req[c].pc = "del"
    /\ LET f == req[c].form
       IN  IF f.session_id \in DictKeys(sessions)
           THEN /\ sessions' = SessionsDel(sessions, f.session_id)
                /\ ended' = ended \cup {f.session_id}
                /\ Answer(c, "end_session", f,
                          [NewResponse EXCEPT !.type = "success", !.text = "Ended session"])
           ELSE /\ UNCHANGED <<sessions, ended>>
                /\ Answer(c, "end_session", f,
                          Error("Couldn't find session id in request data"))
    /\ UNCHANGED <<users, uniqueIndex, nextSession, nextCommand, coreCalls, queuePuts,
                   issued>>
    /\ UNCHANGED <<notifVars, summaryVars, handlersVars>>

\* process_command, lines 312-318 and 333-340: the form is read and the id
\* looked up in core.sessions. At most MaxCommands commands are relayed.
ProcessCommandCheck(c) ==
    /\ Free(c)
    /\ \E f \in CommandForms :
        IF ~f.complete
        THEN Answer(c, "process_command", f,
                    Error("Couldn't find session id and command in request data"))
        ELSE IF f.session_id \in DictKeys(sessions)
             THEN /\ nextCommand + InFlight("core") <= MaxCommands
                  /\ req' = [req EXCEPT ![c] = ReqAt("core", f, 0, "None")]
                  /\ last' = last
             ELSE Answer(c, "process_command", f, Error("Invalid session id"))
    /\ UNCHANGED <<users, uniqueIndex, sessions, nextSession, nextCommand, coreCalls,
                   queuePuts, issued, ended>>
    /\ UNCHANGED <<notifVars, summaryVars, handlersVars>>

\* core.sessions_monitor.command(...): the type of the response it returns.
CoreResponses == {"success", "error"}

\* process_command, lines 320-329: core.sessions[session_id] is read
\* (KeyError when the id has left the registry), the command gets its id
\* and is passed to the core, which returns a response.
ProcessCommandCore(c) ==
    /\ req[c].pc = "core"
    /\ LET f == req[c].form
       IN  IF f.session_id \in DictKeys(sessions)
           THEN /\ \E command_response \in CoreResponses :
                    req' = [req EXCEPT ![c] = ReqAt("queue", f, nextCommand,
                                                    command_response)]
                /\ nextCommand' = nextCommand + 1
                /\ coreCalls' = [coreCalls EXCEPT ![nextCommand] = @ + 1]
                /\ last' = last
           ELSE /\ UNCHANGED <<nextCommand, coreCalls>>
                /\ Answer(c, "process_command", f,
                          Error("Couldn't find session id and command in request data"))
    /\ UNCHANGED <<users, uniqueIndex, sessions, nextSession, queuePuts, issued, ended>>
    /\ UNCHANGED <<notifVars, summaryVars, handlersVars>>

\* A put made twice, as when the core queues the command as well.
QueuePutTwice(d, session_id, command_data) ==
    [i \in DOMAIN d |->
        IF d[i].key = session_id
        THEN [d[i] EXCEPT !.value.commands = Append(Append(@, command_data), command_data)]
        ELSE d[i]]

\* The session's queue after commands.put(command_data), if the session
\* is still filed in d.
QueuePut(d, session_id, command_data) ==
    [i \in DOMAIN d |->
        IF d[i].key = session_id
        THEN [d[i] EXCEPT !.value.commands = Append(@, command_data)]
        ELSE d[i]]

\* process_command, lines 330-341: the command is put on the queue of the
\* session object read at line 320, and the core's response returned.
ProcessCommandQueue(c) ==
    /\ req[c].pc = "queue"
    /\ LET f == req[c].form
           command_data == [id |-> req[c].command_id, command |-> f.command]
       IN  /\ sessions' = QueuePut(sessions, f.session_id, command_data)
           /\ queuePuts' = [queuePuts EXCEPT ![req[c].command_id] = @ + 1]
           /\ Answer(c, "process_command", f,
                     [NewResponse EXCEPT !.type = req[c].command_response,
                                         !.text = "command response"])
    /\ UNCHANGED <<users, uniqueIndex, nextSession, nextCommand, coreCalls, issued,
                   ended>>
    /\ UNCHANGED <<notifVars, summaryVars, handlersVars>>

\* Registration: new_user requests on an empty users table, with or
\* without a unique index on username.
UsersInit ==
    /\ NotifStart
    /\ SummaryIdle
    /\ HandlersIdle
    /\ ApiStart
    /\ uniqueIndex \in BOOLEAN

UsersNext ==
    \/ \E c \in Clients : NewUserCheck(c)
    \/ \E c \in Clients : NewUserInsert(c)

SpecUsers == UsersInit /\ [][UsersNext]_vars

\* The users tables that registration leaves: none, one or two users.
UserRow(username, password, id) == NewUserRow(username, HashPw(password), id)
RegisteredTables ==
    { <<>>,
      <<UserRow("ann", "pw", 1)>>,
      <<UserRow("ann", "pw", 1), UserRow("bob", "pw2", 2)>> }

\* Sessions: the session routes, on a users table that registration has
\* left.
SessionsInit ==
    /\ NotifStart
    /\ SummaryIdle
    /\ HandlersIdle
    /\ users \in RegisteredTables
    /\ uniqueIndex = FALSE
    /\ sessions = <<>>
    /\ req = [c \in Clients |-> IdleReq]
    /\ last = NoRequest
    /\ nextSession = 1
    /\ nextCommand = 1
    /\ coreCalls = [k \in CommandIds |-> 0]
    /\ queuePuts = [k \in CommandIds |-> 0]
    /\ issued = {}
    /\ ended = {}

SessionsNext ==
    \/ \E c \in Clients : StartSession(c)
    \/ \E c \in Clients : GetSessions(c)
    \/ \E c \in Clients : EndSessionCheck(c)
    \/ \E c \in Clients : EndSessionDel(c)
    \/ \E c \in Clients : CheckSession(c)
    \/ \E c \in Clients : ProcessCommandCheck(c)
    \/ \E c \in Clients : ProcessCommandCore(c)
    \/ \E c \in Clients : ProcessCommandQueue(c)

SpecSessions == SessionsInit /\ [][SessionsNext]_vars

\* ----------------------------------------------------- the settings route
\* A settings request: username and password, then the other fields it
\* posts, in the order of request.form.keys().
Posted(setting, value) == [setting |-> setting, value |-> value]
SettingsForm(complete, username, password, posted) ==
    [complete |-> complete, username |-> username, password |-> password,
     session_id |-> "", command |-> "", method |-> "POST", posted |-> posted]
PostedFields ==
    { <<>>,
      <<Posted("email", NewValue)>>,
      <<Posted("email", NewValue), Posted("city", NewValue)>>,
      <<Posted("admin", "true"), Posted("email", NewValue), Posted("id", "7"),
        Posted("user_token", NewValue), Posted("notifications", NewValue),
        Posted("city", NewValue)>> }
SettingsForms ==
    {SettingsForm(FALSE, "", "", <<>>)}
        \cup {SettingsForm(TRUE, u, p, posted) :
                 u \in Usernames \cup {BadString}, p \in Passwords,
                 posted \in PostedFields}

\* request.form of a settings request as the loop of line 127 sees it.
FormItems(f) ==
    <<Posted("username", f.username), Posted("password", f.password)>> \o f.posted

\* A list that lets the admin column through.
ImmutableSettingsShort ==
    {"username", "id", "user_token", "notifications", "password"}

\* Line 123.
ImmutableSettings ==
    {"username", "admin", "id", "user_token", "notifications", "password"}

\* table.upsert({"username": username, setting: value}, ['username']): the
\* rows of that username are updated; with no such row one is inserted.
Upsert(table, username, setting, value) ==
    IF HasUser(table, username)
    THEN [i \in DOMAIN table |->
             IF table[i].username = username
             THEN [table[i] EXCEPT ![setting] = value]
             ELSE table[i]]
    ELSE Append(table,
                [[c \in DOMAIN NewUserRow("", "", 0) |-> Null] EXCEPT
                     !["id"] = ToString(Len(table) + 1),
                     !["username"] = username,
                     ![setting] = value])

\* Lines 127-129: the table of the transaction after the loop has handled
\* the items i..last of the form.
RECURSIVE Upserts(_, _, _, _, _)
Upserts(table, username, items, i, last_item) ==
    IF i > last_item THEN table
    ELSE Upserts(IF items[i].setting \notin ImmutableSettings
                 THEN Upsert(table, username, items[i].setting, items[i].value)
                 ELSE table,
                 username, items, i + 1, last_item)

\* settings, lines 112-121 and 140-150: the form is read and checked, the
\* user looked up and the password compared. A wrong password sets no
\* response.
SettingsCheck(c) ==
    /\ Free(c)
    /\ \E f \in SettingsForms :
        IF ~f.complete
        THEN Answer(c, "settings", f,
                    Error("Couldn't find username or password in request data"))
        ELSE IF ~(CheckString(f.username) /\ CheckString(f.password))
             THEN Answer(c, "settings", f, Error("Invalid input"))
             ELSE IF ~HasUser(users, f.username)
                  THEN Answer(c, "settings", f, Error("User doesn't exist"))
                  ELSE IF CheckPw(f.password, FindOne(users, f.username).password)
                       THEN /\ req' = [req EXCEPT ![c] = ReqAt("upsert", f, 0, "None")]
                            /\ last' = last
                       ELSE Answer(c, "settings", f, NewResponse)
    /\ UNCHANGED <<users, uniqueIndex, sessions, nextSession, nextCommand, coreCalls,
                   queuePuts, issued, ended>>
    /\ UNCHANGED <<notifVars, summaryVars, handlersVars>>

\* settings, lines 123-139: db.begin(), one upsert per item of the form
\* that is not immutable, db.commit(). An upsert or the commit may raise
\* (failed = the item whose upsert raises, one past the last for the
\* commit, 0 for none); the except clause answers an error and rolls back.
SettingsUpsert(c) ==
    /\ req[c].pc = "upsert"
    /\ LET f == req[c].form
           items == FormItems(f)
       IN  \E failed \in 0..(Len(items) + 1) :
             /\ failed \in DOMAIN items => items[failed].setting \notin ImmutableSettings
             /\ IF failed = 0
                THEN /\ users' = Upserts(users, f.username, items, 1, Len(items))
                     /\ Answer(c, "settings", f,
                               [NewResponse EXCEPT !.type = "success",
                                                   !.text = "Updated settings"])
                ELSE /\ users' = Rollback(users,
                                          Upserts(users, f.username, items, 1, failed - 1))
                     /\ Answer(c, "settings", f,
                               Error("Error encountered while trying to update db, changes not committed"))
    /\ UNCHANGED <<uniqueIndex, sessions, nextSession, nextCommand, coreCalls,
                   queuePuts, issued, ended>>
    /\ UNCHANGED <<notifVars, summaryVars, handlersVars>>

\* Settings: settings requests on a users table that registration has left.
SettingsInit ==
    /\ NotifStart
    /\ SummaryIdle
    /\ HandlersIdle
    /\ users \in RegisteredTables
    /\ uniqueIndex = FALSE
    /\ sessions = <<>>
    /\ req = [c \in Clients |-> IdleReq]
    /\ last = NoRequest
    /\ nextSession = 1
    /\ nextCommand = 1
    /\ coreCalls = [k \in CommandIds |-> 0]
    /\ queuePuts = [k \in CommandIds |-> 0]
    /\ issued = {}
    /\ ended = {}

SettingsNext ==
    \/ \E c \in Clients : SettingsCheck(c)
    \/ \E c \in Clients : SettingsUpsert(c)

SpecSettings == SettingsInit /\ [][SettingsNext]_vars

\* ------------------------------------------------ a registry in use
\* core.sessions after k logins, the first by ann and the others by bob.
OpenRegistry(k) ==
    [i \in 1..k |->
        [key   |-> ToString(i),
         value |-> GenSession(IF i = 1 THEN "ann" ELSE "bob", "API-POST", i)]]

\* Registry: start_session, end_session and check_session requests on a
\* registry that holds up to one session more than the requests can name.
RegistryInit ==
    /\ NotifStart
    /\ SummaryIdle
    /\ HandlersIdle
    /\ users = <<UserRow("ann", "pw", 1), UserRow("bob", "pw2", 2)>>
    /\ uniqueIndex = FALSE
    /\ \E k \in 0..(MaxSessions + 1) :
        /\ sessions = OpenRegistry(k)
        /\ nextSession = k + 1
        /\ issued = {ToString(i) : i \in 1..k}
    /\ req = [c \in Clients |-> IdleReq]
    /\ last = NoRequest
    /\ nextCommand = 1
    /\ coreCalls = [k \in CommandIds |-> 0]
    /\ queuePuts = [k \in CommandIds |-> 0]
    /\ ended = {}

RegistryNext ==
    \/ \E c \in Clients : StartSession(c)
    \/ \E c \in Clients : EndSessionCheck(c)
    \/ \E c \in Clients : EndSessionDel(c)
    \/ \E c \in Clients : CheckSession(c)

SpecRegistry == RegistryInit /\ [][RegistryNext]_vars

\* -------------------------- several NotificationHandler instances at once
\* What __init__ sets on the instance (line 113). _notifications is not
\* among it: self._notifications is the dict of the class for every
\* instance, which the variable notifications holds.
InstanceAttrs == {"db"}

\* The dict that self._notifications names for instance h: its own when
\* the instance has one, else the dict of the class (0).
RegistryOf(h) == IF "_notifications" \in InstanceAttrs THEN h ELSE 0

\* NotificationHandler(db), lines 109-118, for one more instance: the
\* table is pulled into self._notifications and a thread started; or the
\* query raises and __init__ with it.
Construct(h) ==
    /\ loops[h].pc = "unborn"
    /\ \A g \in Handlers : g < h => loops[g].pc # "unborn"
    /\ \/ /\ notifications' = PullInto(notifications, rows, 1, now)
          /\ loops' = [loops EXCEPT ![h] = ThreadAt("running", "none")]
          /\ openSessions' = openSessions
       \/ /\ notifications' = notifications
          /\ loops' = [loops EXCEPT ![h] = ThreadAt("failed", "none")]
          /\ openSessions' = openSessions + 1
    /\ UNCHANGED <<now, rows, handler, loop, caller, nextUid, restarts, sendCount,
                   channelCalls, observed, registered, removed, reloaded,
                   unpersisted>>
    /\ UNCHANGED <<via, sentBy, summaryVars, apiVars>>

\* notify, lines 120-139, called on instance h.
NotifyVia(h) ==
    /\ loops[h].pc \in {"running", "dead"}
    /\ nextUid <= MaxNotifs
    /\ \E in \in Inputs :
        LET not_object == Notification(Str(in.message), Str(in.title), now + in.lead,
                                       in.scope, Db, User(in.username), None, None,
                                       None, now, nextUid)
            not_uid == not_object.uid.v[1]
            inserted == DictUpdate(notifications, not_uid, not_object)
        IN  /\ via' = [via EXCEPT ![not_uid] = h]
            /\ IF ShouldPersist(not_object, now)
               THEN /\ notifications' = Memoize(inserted, not_uid, Summary(not_object))
                    /\ \/ /\ rows' = Append(rows, NotificationStore(not_object,
                                                                   Summary(not_object)))
                          /\ openSessions' = openSessions
                          /\ unpersisted' = unpersisted
                       \/ /\ rows' = rows
                          /\ openSessions' = openSessions + 1
                          /\ unpersisted' = unpersisted \cup {not_uid}
               ELSE /\ notifications' = inserted
                    /\ UNCHANGED <<rows, openSessions, unpersisted>>
    /\ nextUid' = nextUid + 1
    /\ UNCHANGED <<now, handler, loop, caller, restarts, sendCount, channelCalls,
                   observed, registered, removed, reloaded>>
    /\ UNCHANGED <<loops, sentBy, summaryVars, apiVars>>

\* The first entry of a dict, in iteration order, whose time has come.
HasDue(d, clock) == \E i \in DOMAIN d : TimeReached(d[i].value, clock)
FirstDue(d, clock) ==
    d[CHOOSE i \in DOMAIN d :
          /\ TimeReached(d[i].value, clock)
          /\ \A j \in 1..(i - 1) : ~TimeReached(d[j].value, clock)]

\* One pass of the thread of instance h over self._notifications, lines
\* 172-188, up to the first entry that is due: the log line, send(), the
\* del, and self.graph, which ends the thread.
Deliver(h) ==
    /\ loops[h].pc = "running"
    /\ HasDue(notifications, now)
    /\ LET not_uid == FirstDue(notifications, now).key
           notification == FirstDue(notifications, now).value
       IN  IF ~Subscriptable(notification.user_data)
           THEN /\ loops' = [loops EXCEPT ![h] = ThreadAt("dead", "TypeError")]
                /\ UNCHANGED <<notifications, rows, sendCount, channelCalls, sentBy>>
           ELSE /\ \E out \in Send(notification) :
                    channelCalls' = IF out \in {"sent", "raised"}
                                    THEN [channelCalls EXCEPT ![not_uid] = @ + 1]
                                    ELSE channelCalls
                /\ sendCount' = [sendCount EXCEPT ![not_uid] = @ + 1]
                /\ sentBy' = [sentBy EXCEPT ![not_uid] = h]
                /\ notifications' = DictDel(notifications, not_uid)
                /\ IF "graph" \in HandlerAttrs
                   THEN /\ rows' = DeleteRow(rows, notification.uid)
                        /\ loops' = loops
                   ELSE /\ rows' = rows
                        /\ loops' = [loops EXCEPT ![h] = ThreadAt("dead", "AttributeError")]
    /\ UNCHANGED <<now, handler, openSessions, loop, caller, nextUid, restarts,
                   observed, registered, removed, reloaded,
                   unpersisted>>
    /\ UNCHANGED <<via, summaryVars, apiVars>>

\* A process that has loaded the class and constructed no instance yet.
HandlersInit ==
    /\ NotifStart
    /\ SummaryIdle
    /\ ApiIdle
    /\ HandlersIdle

HandlersNext ==
    \/ \E h \in Handlers : Construct(h)
    \/ \E h \in Handlers : NotifyVia(h)
    \/ \E h \in Handlers : Deliver(h)
    \/ Advance

SpecHandlers == HandlersInit /\ [][HandlersNext]_vars

\* ------------------------------------------------------------ claims
LiveKeys == DictKeys(notifications)

\* The live-set entries stored under key k, and the rows of uid k.
LiveCount(d, k) == Cardinality({i \in DOMAIN d : d[i].key = k})
RowCount(r, k) == Cardinality({i \in DOMAIN r : SameVal(r[i].uid, Uuid(k))})
RowOf(k) == rows[CHOOSE i \in DOMAIN rows : SameVal(rows[i].uid, Uuid(k))]

\* The loop is between observing entry k due and the end of its handling.
Handling(k) == loop.pc \in {"send", "remove"} /\ loop.key = k

\* C1: once the loop is done with an entry it has seen with time_reached
\* true, the entry is in neither the live set nor the table, whatever
\* send() did.
C1_ObservedEntryGone ==
    \A k \in observed :
        ~Handling(k) => (k \notin LiveKeys /\ RowCount(rows, k) = 0)

\* C2: the loop thread is running as long as the live set holds an entry
\* whose trigger time has passed, so that the entry is sent and removed at
\* the next tick.
C2_DueEntryHasRunningLoop ==
    handler = "up" =>
        \A k \in LiveKeys :
            TimeReached(DictGet(notifications, k), now) => loop.pc # "dead"

\* C3: a notify call that returns has put its notification in the live
\* set once (line 127), and leaves exactly one row of it when
\* trigger_time - now > 300 at the test of line 129 and no row when
\* trigger_time - now <= 300.
C3_NotifyPersistsBeyond300 ==
    [][\A c \in Callers :
         /\ NotifyInsert(c) =>
                LiveCount(notifications', caller'[c].n.uid.v[1]) = 1
         /\ (NotifyPersist(c) /\ caller'[c].pc = "idle") =>
                LET n == caller[c].n
                    k == n.uid.v[1]
                IN  /\ RowCount(rows', k) = (IF n.trigger_time - now > 300 THEN 1 ELSE 0)
                    /\ (LiveCount(notifications', k) = 1 \/ k \in removed)
      ]_vars

\* A call for a notification due in more than 300 s has returned: its row
\* is in the table and its entry in the live set.
C3_Witness ==
    \E k \in registered :
        /\ RowCount(rows, k) = 1
        /\ k \in LiveKeys
        /\ \A c \in Callers : caller[c].pc = "idle"

\* C4: send() is called at most once on a notification, and once it has
\* been called and the loop is done with the entry, the entry has left the
\* live set and its row has left the table.
C4_AtMostOnceAndRemoved ==
    \A k \in Keys :
        /\ sendCount[k] <= 1
        /\ (sendCount[k] = 1 /\ ~Handling(k)) =>
               (k \notin LiveKeys /\ RowCount(rows, k) = 0)

\* C5: an entry loaded at startup is stored under its own id and carries
\* its row's id, created timestamp, summary, message, title, trigger time,
\* scope and user.
C5_ReloadedEqualsRow ==
    \A k \in reloaded \cap LiveKeys :
        LET n == DictGet(notifications, k)
            r == RowOf(k)
        IN  /\ SameVal(n.uid, Uuid(k))
            /\ SameVal(n.uid, r.uid)
            /\ SameVal(n.created, r.created)
            /\ SameVal(n.summary, r.summary)
            /\ SameVal(n.message, r.message)
            /\ SameVal(n.title, r.title)
            /\ n.trigger_time = r.trigger_time
            /\ n.scope = r.scope
            /\ n.user_data.t = "user"
            /\ SameVal(Str(n.user_data.v), r.user_id)

\* C6: after a restart the live set holds the rows of the table and only
\* them (besides what notify has added since), and a reloaded entry that
\* the loop has found due has send() called on it.
C6_RestartRecovery ==
    (restarts > 0 /\ handler = "up") =>
        /\ \A k \in Keys :
               (RowCount(rows, k) > 0 /\ k \notin registered /\ k \notin removed)
                   <=> (k \in LiveKeys /\ k \in reloaded)
        /\ \A k \in reloaded \cap observed :
               Handling(k) \/ (loop.key = k /\ loop.out # "none")

\* C7: every notification passed to notify and not yet removed by the loop
\* is in the live set, under its own uid, and no two entries of the live
\* set have the same key, however the callers' notify calls interleave.
C7_NoLostUpdate ==
    /\ \A k \in registered \ removed :
           /\ k \in LiveKeys
           /\ SameVal(DictGet(notifications, k).uid, Uuid(k))
    /\ \A i, j \in DOMAIN notifications :
           notifications[i].key = notifications[j].key => i = j

\* Two callers are inside notify at once, both past the insertion.
C7_Witness ==
    /\ \E c1, c2 \in Callers :
           c1 # c2 /\ caller[c1].pc = "inserted" /\ caller[c2].pc = "inserted"
    /\ Cardinality(registered \ removed) >= 2

\* C8: while a scan of the live set is in progress the mapping keeps the
\* size the scan started with, and no scan ends with the iterator's
\* RuntimeError.
C8_ScanUndisturbed ==
    /\ loop.pc \in {"next", "send", "remove"} => loop.di_used = Len(notifications)
    /\ loop.error # "RuntimeError"

\* C9: when send() has been called on an entry whose scope has no channel,
\* it called no channel and returned to the loop without raising, the call
\* is not repeated, and after the loop's next step the entry is out of the
\* live set.
C9_UnknownScopeDropped ==
    (loop.out # "none" /\ loop.n.scope \notin Mappings) =>
        /\ loop.out = "nochannel"
        /\ channelCalls[loop.key] = 0
        /\ sendCount[loop.key] = 1
        /\ loop.pc = "remove" \/ loop.key \notin LiveKeys

\* The loop has called send() on an "sms" entry and removed it.
C9_Witness ==
    /\ loop.out = "nochannel"
    /\ loop.n.scope = "sms"
    /\ loop.key \in removed
    /\ loop.key \notin LiveKeys

\* C10: no notify call and no startup load has ended with its database
\* session still open.
C10_SessionsClosed == openSessions = 0

\* C11: notify is fire-and-forget: no notify call ends by raising to its
\* caller, whatever happens while its row is added and committed.
C11_NotifyNeverRaises ==
    \A c \in Callers : caller[c].pc # "raised"

\* C12: every entry of the live set, added by notify or loaded at startup,
\* is stored under the id the notification itself carries, and no two live
\* notifications carry the same id.
C12_KeyIsOwnId ==
    /\ \A i \in DOMAIN notifications :
           SameVal(notifications[i].value.uid, Uuid(notifications[i].key))
    /\ \A i, j \in DOMAIN notifications :
           SameVal(notifications[i].value.uid, notifications[j].value.uid) => i = j

\* The whitespace-separated tokens of a text: the maximal runs of
\* characters other than the space.
IsTokenStart(m, i) == m[i] # " " /\ (i = 1 \/ m[i - 1] = " ")
IsTokenEnd(m, i) == m[i] # " " /\ (i = Len(m) \/ m[i + 1] = " ")
TokenCount(m) == Cardinality({i \in DOMAIN m : IsTokenStart(m, i)})
EndOfToken(m, k) ==
    CHOOSE i \in DOMAIN m :
        IsTokenEnd(m, i) /\ Cardinality({j \in 1..i : IsTokenEnd(m, j)}) = k

\* C13: with no summary supplied, every read of summary returns the text
\* of the message up to the end of its fourth token when the message has
\* five tokens or more, and the whole message when it has fewer.
C13_SummaryIsMessagePrefix ==
    supplied = None =>
        \A i \in DOMAIN reads :
            LET m == note.message.v
            IN  SameVal(reads[i],
                        IF TokenCount(m) >= 5
                        THEN Str(SubSeq(m, 1, EndOfToken(m, 4)))
                        ELSE Str(m))

\* C14: the computing branch of summary runs at most once for a
\* notification, all reads return one value, and when a summary was
\* supplied at construction that value is the supplied one.
C14_SummaryComputedOnce ==
    /\ computes <= 1
    /\ \A i, j \in DOMAIN reads : SameVal(reads[i], reads[j])
    /\ supplied # None => \A i \in DOMAIN reads : SameVal(reads[i], supplied)

\* A row of the users table holds this username with the hash of this
\* password.
Registered(username, password) ==
    \E i \in DOMAIN users :
        users[i].username = username /\ users[i].password = HashPw(password)

AnsweredAtOnce == req' = req /\ last' # last

C17_UsernamesUnique ==
    /\ \A i, j \in DOMAIN users : users[i].username = users[j].username => i = j
    /\ ( /\ last.route = "new_user"
         /\ last.form.complete
         /\ CheckString(last.form.username)
         /\ last.resp.type # "success"
         /\ HasUser(users, last.form.username) ) =>
           (last.resp.type = "error" /\ last.resp.text = "Username is already taken")

\* C18: get_sessions answers success only to a request with the password
\* of its user, and then lists each id of core.sessions filed for that
\* username once and no other id; with a wrong password it answers an
\* error, and no answer but a success lists an id.
C18_OwnSessionsOnly ==
    last.route = "get_sessions" =>
        LET f == last.form
            resp == last.resp
        IN  /\ resp.type = "success" =>
                   /\ Registered(f.username, f.password)
                   /\ {resp.listed[i] : i \in DOMAIN resp.listed}
                          = {k \in DictKeys(sessions) :
                                 DictGet(sessions, k).username = f.username}
                   /\ \A i, j \in DOMAIN resp.listed :
                          resp.listed[i] = resp.listed[j] => i = j
            /\ (f.complete /\ HasUser(users, f.username)
                           /\ ~Registered(f.username, f.password)) =>
                   resp.type = "error"
            /\ resp.type # "success" => resp.listed = <<>>

\* get_sessions has listed a session of the requesting user.
C18_Witness ==
    /\ last.route = "get_sessions"
    /\ last.resp.type = "success"
    /\ last.resp.listed # <<>>

C20_OneThreadPerLiveSet ==
    /\ \A g, h \in Handlers :
           (loops[g].pc = "running" /\ loops[h].pc = "running"
                                    /\ RegistryOf(g) = RegistryOf(h)) => g = h
    /\ \A k \in Keys : sentBy[k] # 0 => sentBy[k] = via[k]

\* C21: a notification whose row notify failed to add or commit is in the
\* live set until the loop removes it, the loop removes it only after
\* send() was called on it, and while it waits in the live set with its
\* trigger time passed the loop thread is running to deliver it.
C21_UnpersistedStillDelivered ==
    handler = "up" =>
        \A k \in unpersisted :
            /\ k \in LiveKeys \/ k \in removed
            /\ k \in removed => sendCount[k] = 1
            /\ (k \in LiveKeys /\ TimeReached(DictGet(notifications, k), now)) =>
                   loop.pc # "dead"

\* The columns of a users row.
UserColumns == DOMAIN NewUserRow("", "", 0)

\* C22: no step of the settings route adds or removes a row or changes the
\* username, admin, id, user_token, notifications or password column of
\* one, whatever the request posts; and a step changes a row only for a
\* request whose username has a row and whose password is the one hashed
\* in that row, and only in rows of that username.
C22_SettingsKeepsImmutables ==
    [][/\ Len(users') = Len(users)
       /\ \A i \in DOMAIN users :
            \A col \in {"username", "admin", "id", "user_token", "notifications",
                        "password"} :
                users'[i][col] = users[i][col]
       /\ users' # users =>
            \E c \in Clients :
                /\ req[c].pc = "upsert"
                /\ req'[c].pc = "idle"
                /\ Registered(req[c].form.username, req[c].form.password)
                /\ \A i \in DOMAIN users :
                       users'[i] # users[i] => users[i].username = req[c].form.username
      ]_vars

\* A request that posted admin, id, user_token and notifications along
\* with email and city was answered success: email and city are changed.
C22_Witness ==
    /\ last.route = "settings"
    /\ last.resp.type = "success"
    /\ \E j \in DOMAIN last.form.posted : last.form.posted[j].setting = "admin"
    /\ \E i \in DOMAIN users :
           /\ users[i].username = last.form.username
           /\ users[i].email = NewValue
           /\ users[i].city = NewValue

\* The value a column of a row of username has once every non-immutable
\* field of the form is written to it.
AfterSettings(row, f, col) ==
    IF \E j \in DOMAIN f.posted :
           /\ f.posted[j].setting = col
           /\ col \notin {"username", "admin", "id", "user_token", "notifications",
                          "password"}
    THEN f.posted[CHOOSE j \in DOMAIN f.posted : f.posted[j].setting = col].value
    ELSE row[col]

\* C23: a settings request that got as far as the transaction ends in one
\* of two ways: answered with an error, the users table as it was before
\* the transaction; or answered success, every row of its username holding
\* every non-immutable field of the request and all else as before.
C23_SettingsAllOrNothing ==
    [][\A c \in Clients :
         (req[c].pc = "upsert" /\ req'[c].pc = "idle") =>
             LET f == req[c].form
             IN  /\ last'.route = "settings"
                 /\ last'.form = f
                 /\ \/ /\ last'.resp.type = "error"
                       /\ users' = users
                    \/ /\ last'.resp.type = "success"
                       /\ Len(users') = Len(users)
                       /\ \A i \in DOMAIN users :
                              IF users[i].username = f.username
                              THEN \A col \in UserColumns :
                                       users'[i][col] = AfterSettings(users[i], f, col)
                              ELSE users'[i] = users[i]
      ]_vars

\* A request posting two settings, whose transaction failed, was answered
\* with the error, and the rows of its user hold neither.
C23_Witness ==
    /\ last.route = "settings"
    /\ last.resp.text = "Error encountered while trying to update db, changes not committed"
    /\ Len(last.form.posted) = 2
    /\ \A i \in DOMAIN users :
           users[i].username = last.form.username =>
               (users[i].email = OldValue /\ users[i].city = OldValue)

\* C24: a new_user request that is not answered success leaves the users
\* table as it was, whether a field was missing, a string failed the
\* check, the username was taken or the insert was rolled back; the table
\* changes only in the step that answers a request success, and then by
\* one new row holding that request's username and the hash of its
\* password.
C24_FailedNewUserLeavesTable ==
    [][\A c \in Clients :
         /\ ((NewUserCheck(c) \/ NewUserInsert(c)) /\ req'[c].pc = "idle"
                 /\ last'.resp.type # "success") => users' = users
         /\ (NewUserCheck(c) /\ req'[c].pc = "insert") => users' = users
         /\ (NewUserInsert(c) /\ users' # users) =>
                /\ last'.resp.type = "success"
                /\ last'.form = req[c].form
                /\ Len(users') = Len(users) + 1
                /\ SubSeq(users', 1, Len(users)) = users
                /\ users'[Len(users')].username = req[c].form.username
                /\ users'[Len(users')].password = HashPw(req[c].form.password)
         /\ (NewUserInsert(c) /\ last'.resp.type = "success") => users' # users
      ]_vars

\* An insert was rolled back: the request got no success and the table
\* holds no row of its username.
C24_Witness ==
    /\ last.route = "new_user"
    /\ last.form.complete
    /\ CheckString(last.form.username)
    /\ last.resp.type = "None"
    /\ ~HasUser(users, last.form.username)

\* The answer is the core's response, which process_command passes on.
FromCore(answered) ==
    answered.route = "process_command" /\ answered.resp.text = "command response"

\* C25: every POST request that new_user, settings, get_sessions,
\* start_session, end_session or check_session has handled, and every
\* request process_command has answered itself, got a response of type
\* 'success' or 'error': the type is never left at None, and no exception
\* leaves the route.
C25_ResponseTypeSet ==
    (last.route # "none" /\ last.form.method = "POST" /\ ~FromCore(last)) =>
        /\ last.resp.raised = "none"
        /\ last.resp.type \in {"success", "error"}

\* C26: an end_session request answered success has taken its id, and no
\* other, out of core.sessions, and every session left is as it was; an
\* end_session request with no session_id, or with an id that is not in
\* core.sessions, is answered with an error and changes nothing in
\* core.sessions; and no step of check_session changes core.sessions.
C26_EndSessionFrame ==
    [][\A c \in Clients :
         /\ (EndSessionDel(c) /\ last'.resp.type = "success") =>
                LET sid == req[c].form.session_id
                IN  /\ sid \in DictKeys(sessions)
                    /\ DictKeys(sessions') = DictKeys(sessions) \ {sid}
                    /\ Len(sessions') = Len(sessions) - 1
                    /\ \A k \in DictKeys(sessions') :
                           DictGet(sessions', k) = DictGet(sessions, k)
         /\ ((EndSessionCheck(c) \/ EndSessionDel(c)) /\ req'[c].pc = "idle"
                 /\ (~last'.form.complete
                         \/ last'.form.session_id \notin DictKeys(sessions))) =>
                (last'.resp.type = "error" /\ sessions' = sessions)
         /\ EndSessionCheck(c) => sessions' = sessions
         /\ CheckSession(c) => sessions' = sessions
      ]_vars

\* end_session has removed a session and another one is still in the
\* registry.
C26_Witness ==
    /\ last.route = "end_session"
    /\ last.resp.type = "success"
    /\ last.form.session_id \notin DictKeys(sessions)
    /\ sessions # <<>>

\* C27: a process_command request that carried both fields, whatever
\* end_session does to its session meanwhile, ends either with the relay
\* done and the core's response returned or with the error 'Invalid
\* session id': no exception leaves the route, the error about missing
\* request data is not returned, and the command is put on the queue only
\* of a session that is in core.sessions at the time.
C27_CommandVsEndSession ==
    [][\A c \in Clients :
         /\ ((ProcessCommandCheck(c) \/ ProcessCommandCore(c) \/ ProcessCommandQueue(c))
                 /\ req'[c].pc = "idle" /\ last'.form.complete) =>
                /\ last'.resp.raised = "none"
                /\ last'.resp.text \in {"command response", "Invalid session id"}
         /\ ProcessCommandQueue(c) =>
                /\ req[c].form.session_id \in DictKeys(sessions)
                /\ req[c].form.session_id \notin ended
      ]_vars

====
